---------------------------- MODULE Spec2Model ----------------------------
(***************************************************************************)
(* The train reservation service: the booking-reference generator          *)
(* (booking_reference.rs), the train data model and Train::reserve         *)
(* (train.rs), and the HTTP handlers with their error mapping (rest.rs).   *)
(*                                                                         *)
(* Option<T> is a sequence of length 0 (None) or 1 (Some).  The u64        *)
(* counter is a sequence of 16 hexadecimal digits, most significant        *)
(* first: it keeps the full 64-bit width, which TLC's integers do not.     *)
(***************************************************************************)
EXTENDS Integers, Sequences, FiniteSets, TLC

VARIABLES
    trains,           \* TrainDataService.trains: TrainId -> Train (SeatId -> Seat)
    counter,          \* BookingReferenceService.counter, 16 hex digits
    overflow_checks,  \* the build: TRUE panics on integer overflow, FALSE wraps
    start,            \* the value BookingReferenceService::new was given
    issued,           \* the results of the booking_reference() calls so far
    last,             \* the last operation: its input, its result, the state before
    marked,           \* a reservation that succeeded on a train not reset since
    pc,               \* concurrent clients: where each one's handler stands
    req,              \* concurrent clients: the request each one sent
    mutex,            \* the Mutex of app(): its holder, and whether poisoned
    local,            \* concurrent clients: the locals of each one's handler
    order             \* the clients in the order they took the mutex

vars == <<trains, counter, overflow_checks, start, issued, last, marked,
          pc, req, mutex, local, order>>

\* the variables of the concurrent clients
conc == <<pc, req, mutex, local, order>>

--------------------------------------------------------------------------
(* Bounds of the model *)

\* longest seat list of a Reservation
MaxSeats == 3
\* booking_reference requests served by the application
MaxCalls == 1
\* booking_reference() calls on one stand-alone service instance
MaxRefCalls == 3
\* how many start values next to 0 and next to u64::MAX are tried
NearEdge == 4

(* Program constants *)

\* counter: u64
CounterBits == 64
\* BookingReferenceService::new(0) in AppState::new
AppStart == 0
\* BookingReferenceService::new(123456789) in the unit tests
TestStart == 123456789

--------------------------------------------------------------------------
(* Option *)

None == <<>>
Some(x) == <<x>>
is_some(o) == Len(o) = 1
unwrap(o) == o[1]

--------------------------------------------------------------------------
(* u64 as hexadecimal digits *)

NDigits == CounterBits \div 4

U64 == [1..NDigits -> 0..15]

U64Zero == [i \in 1..NDigits |-> 0]

U64Max == [i \in 1..NDigits |-> 15]

\* the digits of n, least significant first, none for 0
RECURSIVE NatDigitsLE(_)
NatDigitsLE(n) == IF n = 0 THEN <<>> ELSE <<n % 16>> \o NatDigitsLE(n \div 16)

\* a natural number below 2^31 as a u64
ToU64(n) ==
    LET le == NatDigitsLE(n)
    IN  [i \in 1..NDigits |->
            IF NDigits - i + 1 <= Len(le) THEN le[NDigits - i + 1] ELSE 0]

\* d + 1 modulo 2^64: add with carry from the least significant digit
RECURSIVE AddOneFrom(_, _)
AddOneFrom(d, i) ==
    IF i = 0 THEN d
    ELSE IF d[i] = 15 THEN AddOneFrom([d EXCEPT ![i] = 0], i - 1)
    ELSE [d EXCEPT ![i] = d[i] + 1]

wrapping_add_one(d) == AddOneFrom(d, NDigits)

\* d - 1 modulo 2^64 (used only to name start values below u64::MAX)
RECURSIVE SubOneFrom(_, _)
SubOneFrom(d, i) ==
    IF i = 0 THEN d
    ELSE IF d[i] = 0 THEN SubOneFrom([d EXCEPT ![i] = 15], i - 1)
    ELSE [d EXCEPT ![i] = d[i] - 1]

RECURSIVE MaxMinus(_)
MaxMinus(k) == IF k = 0 THEN U64Max ELSE SubOneFrom(MaxMinus(k - 1), NDigits)

\* a < b as unsigned 64-bit numbers
U64Less(a, b) ==
    \E i \in 1..NDigits :
        /\ a[i] < b[i]
        /\ \A j \in 1..(i - 1) : a[j] = b[j]

--------------------------------------------------------------------------
(* booking_reference.rs *)

HexChars == <<"0", "1", "2", "3", "4", "5", "6", "7",
              "8", "9", "a", "b", "c", "d", "e", "f">>

\* the significant digits of d: leading zeros dropped, one digit kept for 0
RECURSIVE Significant(_)
Significant(s) ==
    IF Len(s) > 1 /\ Head(s) = 0 THEN Significant(Tail(s)) ELSE s

RECURSIVE HexString(_)
HexString(s) ==
    IF s = <<>> THEN "" ELSE HexChars[Head(s) + 1] \o HexString(Tail(s))

\* format!("{:x}", n)
format_hex(d) == HexString(Significant([i \in 1..NDigits |-> d[i]]))

\* BookingReference::new
BookingReference(s) == s

\* BookingReferenceService::new
BookingReferenceService_new(s) == s

(* BookingReferenceService::booking_reference: `self.counter += 1` panics   *)
(* with overflow checks on (the debug profile) and wraps with them off (the *)
(* release profile); a panic leaves the counter as it was.                  *)
booking_reference(c, checks) ==
    IF c = U64Max /\ checks
    THEN [panicked |-> TRUE, counter |-> c, reference |-> None]
    ELSE LET n == wrapping_add_one(c)
         IN  [panicked |-> FALSE, counter |-> n,
              reference |-> Some(BookingReference(format_hex(n)))]

--------------------------------------------------------------------------
(* train.rs: the data model *)

\* TrainId::new, SeatId::new
TrainId(s) == s
SeatId(s) == s

\* struct Seat
Seat(n, c, b) == [seat_number |-> n, coach |-> c, booking_reference |-> b]

\* struct Reservation
Reservation(s, b) == [seats |-> s, booking_reference |-> b]

\* enum Error
TrainDoesNotExist(id) == [tag |-> "TrainDoesNotExist", train_id |-> id]
SeatsDoNotExist(ids) == [tag |-> "SeatsDoNotExist", seats |-> ids]
SeatsAlreadyReserved(ids) == [tag |-> "SeatsAlreadyReserved", seats |-> ids]

\* Result<T, Error>
Ok(v) == [ok |-> TRUE, value |-> v]
Err(e) == [ok |-> FALSE, error |-> e]

\* the unit value ()
Unit == "()"

(* trains.json, loaded once by AppState::new: every seat free.  The tests   *)
(* rely on train "local_1000" having a free seat "1A"; seat id "1A" exists  *)
(* in both trains.                                                          *)
Fixture ==
    (TrainId("local_1000") :>
        (SeatId("1A") :> Seat("1", "A", None) @@
         SeatId("2A") :> Seat("2", "A", None)))
    @@
    (TrainId("express_2000") :>
        (SeatId("1A") :> Seat("1", "A", None)))

--------------------------------------------------------------------------
(* train.rs: Train::reserve and Train::reset *)

\* mutant: the existence pass stops at the first missing id
RECURSIVE non_existent_first_only(_, _)
non_existent_first_only(seats, ids) ==
    IF ids = <<>> THEN <<>>
    ELSE IF Head(ids) \notin DOMAIN seats THEN <<Head(ids)>>
    ELSE non_existent_first_only(seats, Tail(ids))

\* the first loop of reserve: the requested ids that are no key of the seats
RECURSIVE non_existent_seat_ids(_, _)
non_existent_seat_ids(seats, ids) ==
    IF ids = <<>> THEN <<>>
    ELSE (IF Head(ids) \notin DOMAIN seats THEN <<Head(ids)>> ELSE <<>>)
         \o non_existent_seat_ids(seats, Tail(ids))

\* mutant: the conflict pass stops at the first booked seat
RECURSIVE already_reserved_first_only(_, _)
already_reserved_first_only(seats, ids) ==
    IF ids = <<>> THEN <<>>
    ELSE IF is_some(seats[Head(ids)].booking_reference) THEN <<Head(ids)>>
    ELSE already_reserved_first_only(seats, Tail(ids))

\* the second loop of reserve: the requested ids whose seat is booked
RECURSIVE seats_already_reserved(_, _)
seats_already_reserved(seats, ids) ==
    IF ids = <<>> THEN <<>>
    ELSE (IF is_some(seats[Head(ids)].booking_reference)
          THEN <<Head(ids)>> ELSE <<>>)
         \o seats_already_reserved(seats, Tail(ids))

\* mutant: the commit pass stamps every seat of the train
stamp_whole_train(seats, ids, ref) ==
    IF ids = <<>> THEN seats
    ELSE [s \in DOMAIN seats |->
            [seats[s] EXCEPT !.booking_reference = Some(ref)]]

\* mutant: the commit pass writes the seat id where the reference belongs
RECURSIVE stamp_seat_id(_, _, _)
stamp_seat_id(seats, ids, ref) ==
    IF ids = <<>> THEN seats
    ELSE stamp_seat_id(
             [seats EXCEPT ![Head(ids)].booking_reference = Some(Head(ids))],
             Tail(ids), ref)

\* the third loop of reserve: stamp every requested seat, in request order
RECURSIVE stamp(_, _, _)
stamp(seats, ids, ref) ==
    IF ids = <<>> THEN seats
    ELSE stamp([seats EXCEPT ![Head(ids)].booking_reference = Some(ref)],
               Tail(ids), ref)

\* the requested ids that exist and are free
RECURSIVE free_seats(_, _)
free_seats(seats, ids) ==
    IF ids = <<>> THEN <<>>
    ELSE (IF Head(ids) \in DOMAIN seats
             /\ ~is_some(seats[Head(ids)].booking_reference)
          THEN <<Head(ids)>> ELSE <<>>)
         \o free_seats(seats, Tail(ids))

\* the requested ids that exist
RECURSIVE existing_seats(_, _)
existing_seats(seats, ids) ==
    IF ids = <<>> THEN <<>>
    ELSE (IF Head(ids) \in DOMAIN seats THEN <<Head(ids)>> ELSE <<>>)
         \o existing_seats(seats, Tail(ids))

\* mutant: one pass that stamps the free seats while it validates, so a
\* failed call keeps the stamps it made
reserve_stamping_while_checking(seats, reservation) ==
    LET missing == non_existent_seat_ids(seats, reservation.seats)
        stamped == stamp(seats, free_seats(seats, reservation.seats),
                         reservation.booking_reference)
    IN  IF missing # <<>>
        THEN [result |-> Err(SeatsDoNotExist(missing)), seats |-> stamped]
        ELSE LET booked == seats_already_reserved(seats, reservation.seats)
             IN  IF booked # <<>>
                 THEN [result |-> Err(SeatsAlreadyReserved(booked)),
                       seats |-> stamped]
                 ELSE [result |-> Ok(Unit), seats |-> stamped]

\* mutant: the conflict pass runs first, over the seats that exist
reserve_conflict_first(seats, reservation) ==
    LET booked == seats_already_reserved(
                      seats, existing_seats(seats, reservation.seats))
        missing == non_existent_seat_ids(seats, reservation.seats)
    IN  IF booked # <<>>
        THEN [result |-> Err(SeatsAlreadyReserved(booked)), seats |-> seats]
        ELSE IF missing # <<>>
        THEN [result |-> Err(SeatsDoNotExist(missing)), seats |-> seats]
        ELSE [result |-> Ok(Unit),
              seats |-> stamp(seats, reservation.seats,
                              reservation.booking_reference)]

\* mutant: no conflict pass, a booked seat is stamped again
reserve_without_conflict_pass(seats, reservation) ==
    LET missing == non_existent_seat_ids(seats, reservation.seats)
    IN  IF missing # <<>>
        THEN [result |-> Err(SeatsDoNotExist(missing)), seats |-> seats]
        ELSE [result |-> Ok(Unit),
              seats |-> stamp(seats, reservation.seats,
                              reservation.booking_reference)]

\* mutant: one loop that checks and stamps seat after seat, so the second
\* occurrence of a seat finds it booked
RECURSIVE reserve_seat_by_seat_from(_, _, _)
reserve_seat_by_seat_from(seats, ids, ref) ==
    IF ids = <<>> THEN [result |-> Ok(Unit), seats |-> seats]
    ELSE IF Head(ids) \notin DOMAIN seats
    THEN [result |-> Err(SeatsDoNotExist(<<Head(ids)>>)), seats |-> seats]
    ELSE IF is_some(seats[Head(ids)].booking_reference)
    THEN [result |-> Err(SeatsAlreadyReserved(<<Head(ids)>>)),
          seats |-> seats]
    ELSE reserve_seat_by_seat_from(
             [seats EXCEPT ![Head(ids)].booking_reference = Some(ref)],
             Tail(ids), ref)

reserve_seat_by_seat(seats, reservation) ==
    LET r == reserve_seat_by_seat_from(seats, reservation.seats,
                                       reservation.booking_reference)
    IN  IF r.result.ok THEN r ELSE [result |-> r.result, seats |-> seats]

\* mutant: an empty seat list is refused
reserve_rejecting_empty(seats, reservation) ==
    LET missing == non_existent_seat_ids(seats, reservation.seats)
    IN  IF missing # <<>> \/ reservation.seats = <<>>
        THEN [result |-> Err(SeatsDoNotExist(missing)), seats |-> seats]
        ELSE LET booked == seats_already_reserved(seats, reservation.seats)
             IN  IF booked # <<>>
                 THEN [result |-> Err(SeatsAlreadyReserved(booked)),
                       seats |-> seats]
                 ELSE [result |-> Ok(Unit),
                       seats |-> stamp(seats, reservation.seats,
                                       reservation.booking_reference)]

\* Train::reserve: the result and the train's seats after the call
reserve(seats, reservation) ==
    LET missing == non_existent_seat_ids(seats, reservation.seats)
    IN  IF missing # <<>>
        THEN [result |-> Err(SeatsDoNotExist(missing)), seats |-> seats]
        ELSE LET booked == seats_already_reserved(seats, reservation.seats)
             IN  IF booked # <<>>
                 THEN [result |-> Err(SeatsAlreadyReserved(booked)),
                       seats |-> seats]
                 ELSE [result |-> Ok(Unit),
                       seats |-> stamp(seats, reservation.seats,
                                       reservation.booking_reference)]

\* mutant: reset drops the booked seats instead of clearing them
reset_removing_booked(seats) ==
    [s \in {x \in DOMAIN seats : ~is_some(seats[x].booking_reference)} |->
        seats[s]]

\* mutant: reset stops before the last seat of the map
reset_skipping_one(seats) ==
    LET skipped == CHOOSE x \in DOMAIN seats :
                       \A y \in DOMAIN seats :
                           is_some(seats[y].booking_reference) =>
                               is_some(seats[x].booking_reference)
    IN  [s \in DOMAIN seats |->
            IF s = skipped THEN seats[s]
            ELSE [seats[s] EXCEPT !.booking_reference = None]]

\* Train::reset
reset(seats) ==
    [s \in DOMAIN seats |-> [seats[s] EXCEPT !.booking_reference = None]]

--------------------------------------------------------------------------
(* train.rs: TrainDataService *)

\* TrainDataService::train
train(data, train_id) ==
    IF train_id \in DOMAIN data
    THEN Ok(data[train_id])
    ELSE Err(TrainDoesNotExist(train_id))

\* mutant: any train of the collection is handed out for a known id
train_mut_any_train(data, train_id) ==
    IF train_id \in DOMAIN data
    THEN Ok(CHOOSE t \in DOMAIN data : t # train_id)
    ELSE Err(TrainDoesNotExist(train_id))

\* TrainDataService::train_mut: the train is handed out by its key
train_mut(data, train_id) ==
    IF train_id \in DOMAIN data
    THEN Ok(train_id)
    ELSE Err(TrainDoesNotExist(train_id))

--------------------------------------------------------------------------
(* rest.rs: responses *)

\* mutant: the ids joined by "," alone
RECURSIVE format_seat_ids_no_space(_)
format_seat_ids_no_space(ids) ==
    IF ids = <<>> THEN ""
    ELSE IF Len(ids) = 1 THEN Head(ids)
    ELSE Head(ids) \o "," \o format_seat_ids_no_space(Tail(ids))

\* format_seat_ids: the ids joined by ", "
RECURSIVE format_seat_ids(_)
format_seat_ids(ids) ==
    IF ids = <<>> THEN ""
    ELSE IF Len(ids) = 1 THEN Head(ids)
    ELSE Head(ids) \o ", " \o format_seat_ids(Tail(ids))

Response(status, body) == [status |-> status, body |-> body]

\* impl IntoResponse for Error
into_response(e) ==
    CASE e.tag = "TrainDoesNotExist" ->
            Response(404, "Train " \o e.train_id \o " does not exist")
      [] e.tag = "SeatsAlreadyReserved" ->
            Response(400, "Seats [" \o format_seat_ids(e.seats)
                          \o "] are already reserved")
      [] e.tag = "SeatsDoNotExist" ->
            Response(400, "Seats [" \o format_seat_ids(e.seats)
                          \o "] do not exist")

--------------------------------------------------------------------------
(* The requests the model tries *)

TrainIds == DOMAIN Fixture \cup {TrainId("does_not_exist")}

SeatIds == {SeatId("1A"), SeatId("2A"), SeatId("does_not_exist")}

\* "123456" is the reference of the tests; "1" is the first one issued from 0
BookingReferences == {BookingReference("123456"), BookingReference("1")}

SeatLists == UNION {[1..n -> SeatIds] : n \in 0..MaxSeats}

Reservations ==
    {Reservation(s, b) : s \in SeatLists, b \in BookingReferences}

\* start values of a stand-alone BookingReferenceService
StartValues ==
    {ToU64(k) : k \in 0..NearEdge}
    \cup {MaxMinus(k) : k \in 0..NearEdge}
    \cup {ToU64(TestStart), ToU64(255), ToU64(65535)}

NoReservation == Reservation(<<>>, "")

Record(op, id, reservation, result, response) ==
    [op |-> op, train_id |-> id, reservation |-> reservation,
     result |-> result, response |-> response,
     before |-> trains, counter_before |-> counter]

--------------------------------------------------------------------------
(* rest.rs: the application state and the handlers.  Every handler runs    *)
(* with the one mutex of app() held from its first statement to its last,  *)
(* so each is one step.  A client sends its requests one after another, as *)
(* the tests of rest.rs do: `last` holds the request being answered, and   *)
(* Respond hands the response over before the next request is sent.        *)

Idle ==
    [op |-> "idle", train_id |-> "", reservation |-> NoReservation,
     result |-> Ok(Unit), response |-> Response(0, ""),
     before |-> <<>>, counter_before |-> <<>>]

\* clients whose requests are handled concurrently
NClients == 2

Clients == 1..NClients

NoRequest == [op |-> "none", train_id |-> "", reservation |-> NoReservation]

NoLocals == [result |-> Ok(Unit), response |-> Response(0, ""), todo |-> <<>>]

\* Arc::new(Mutex::new(state)) in app(), and no request received yet
NoClients ==
    /\ pc = [c \in Clients |-> "idle"]
    /\ req = [c \in Clients |-> NoRequest]
    /\ mutex = [holder |-> None, poisoned |-> FALSE]
    /\ local = [c \in Clients |-> NoLocals]
    /\ order = <<>>

\* AppState::new
Init ==
    /\ trains = Fixture
    /\ start = BookingReferenceService_new(ToU64(AppStart))
    /\ counter = start
    /\ overflow_checks \in BOOLEAN
    /\ issued = <<>>
    /\ marked = None
    /\ last = Idle
    /\ NoClients

\* the step of one booking_reference() call
Issue(op) ==
    LET r == booking_reference(counter, overflow_checks)
    IN  /\ counter' = r.counter
        /\ issued' = Append(issued, [panicked |-> r.panicked,
                                     counter |-> r.counter,
                                     reference |-> r.reference])
        /\ last' = Record(op, "", NoReservation,
                          IF r.panicked THEN Err([tag |-> "panic"])
                                        ELSE Ok(unwrap(r.reference)),
                          IF r.panicked THEN Response(0, "")
                                        ELSE Response(200, unwrap(r.reference)))
        /\ UNCHANGED <<trains, overflow_checks, start, marked>>
        /\ UNCHANGED conc

\* POST /booking_reference
BookingReferenceRequest ==
    /\ last = Idle
    /\ Len(issued) < MaxCalls
    /\ Issue("booking_reference")

\* GET /train/:train_id
TrainRequest ==
    /\ last = Idle
    /\ \E id \in TrainIds :
        LET r == train(trains, id)
        IN  /\ last' = Record("train", id, NoReservation, r,
                              IF r.ok THEN Response(200, r.value)
                                      ELSE into_response(r.error))
            /\ UNCHANGED <<trains, counter, overflow_checks, start, issued,
                           marked>>
            /\ UNCHANGED conc

\* mutant: a successful reservation is written to every train that has the
\* seats free
train_reserve_every_train(data, id, reservation) ==
    LET t == train_mut(data, id)
    IN  IF ~t.ok
        THEN [result |-> t, trains |-> data]
        ELSE LET r == reserve(data[t.value], reservation)
             IN  [result |-> r.result,
                  trains |->
                    [x \in DOMAIN data |->
                        IF r.result.ok /\ reserve(data[x], reservation).result.ok
                        THEN reserve(data[x], reservation).seats
                        ELSE data[x]]]

\* the trains after POST /train/:train_id/reserve, and its result
train_reserve(data, id, reservation) ==
    LET t == train_mut(data, id)
    IN  IF ~t.ok
        THEN [result |-> t, trains |-> data]
        ELSE LET r == reserve(data[t.value], reservation)
             IN  [result |-> r.result,
                  trains |-> [data EXCEPT ![t.value] = r.seats]]

\* POST /train/:train_id/reserve
TrainReserveRequest ==
    /\ last = Idle
    /\ \E id \in TrainIds, reservation \in Reservations :
        LET r == train_reserve(trains, id, reservation)
        IN  /\ trains' = r.trains
            /\ last' = Record("train_reserve", id, reservation, r.result,
                              IF r.result.ok
                              THEN Response(200, r.trains[id])
                              ELSE into_response(r.result.error))
            /\ marked' \in
                 {marked} \cup
                 (IF r.result.ok /\ reservation.seats # <<>>
                  THEN {Some([train_id |-> id, reservation |-> reservation])}
                  ELSE {})
            /\ UNCHANGED <<counter, overflow_checks, start, issued>>
            /\ UNCHANGED conc

\* Train::reset on a train of the collection (no route calls it)
Reset ==
    /\ last = Idle
    /\ \E id \in DOMAIN trains :
        /\ trains' = [trains EXCEPT ![id] = reset(trains[id])]
        /\ last' = Record("reset", id, NoReservation, Ok(Unit),
                          Response(0, ""))
        /\ marked' = IF is_some(marked) /\ unwrap(marked).train_id = id
                     THEN None ELSE marked
        /\ UNCHANGED <<counter, overflow_checks, start, issued>>
        /\ UNCHANGED conc

\* the response reaches the client
Respond ==
    /\ last # Idle
    /\ last' = Idle
    /\ UNCHANGED <<trains, counter, overflow_checks, start, issued, marked>>
    /\ UNCHANGED conc

\* the routes of app(): the operations a request can trigger
Routes == {"booking_reference", "train", "train_reserve"}

Next ==
    \/ BookingReferenceRequest
    \/ TrainRequest
    \/ TrainReserveRequest
    \/ Reset
    \/ Respond

Spec == Init /\ [][Next]_vars

--------------------------------------------------------------------------
(* One stand-alone BookingReferenceService, created with any start value,  *)
(* as the unit tests of booking_reference.rs create it.                    *)

InitRef ==
    /\ trains = Fixture
    /\ start \in {BookingReferenceService_new(s) : s \in StartValues}
    /\ counter = start
    /\ overflow_checks \in BOOLEAN
    /\ issued = <<>>
    /\ marked = None
    /\ last = Idle
    /\ NoClients

BookingReferenceCall ==
    /\ Len(issued) < MaxRefCalls
    /\ Issue("call")

NextRef == BookingReferenceCall

SpecRef == InitRef /\ [][NextRef]_vars

--------------------------------------------------------------------------
(* rest.rs with several requests in flight.  app() puts the one AppState   *)
(* behind Arc<Mutex<..>>; every handler starts with state.lock().unwrap()  *)
(* and the guard lives until the handler's last use of it.  Here a handler *)
(* is not one step: taking the mutex, the train lookup, the passes of      *)
(* Train::reserve, each stamped seat, the clone for the response and the   *)
(* drop of the guard are steps of their own, so that what the mutex keeps  *)
(* apart is visible.  Each client sends one request.                       *)

Request(op, id, reservation) ==
    [op |-> op, train_id |-> id, reservation |-> reservation]

\* the requests the clients choose from: every route, every early return
ConcRequests ==
    { Request("train_reserve", "local_1000",
              Reservation(<<"1A", "2A">>, "123456")),
      Request("train_reserve", "local_1000", Reservation(<<"2A">>, "1")),
      Request("train_reserve", "local_1000",
              Reservation(<<"2A", "does_not_exist">>, "2")),
      Request("train_reserve", "does_not_exist", Reservation(<<"1A">>, "1")),
      Request("train", "local_1000", NoReservation),
      Request("train", "does_not_exist", NoReservation),
      Request("booking_reference", "", NoReservation) }

\* where a handler stands while it owns the guard
InSection ==
    {"locked", "existence", "conflict", "commit", "clone", "returning"}

\* mutant: lock() returns at once, whoever holds the mutex
can_lock_always(m) == TRUE

\* Mutex::lock blocks until no other guard is alive
can_lock(m) == m.holder = None

\* mutant: the guard is dropped only when the handler returns Ok
unlock_on_success_only(m, result) ==
    IF result.ok THEN [m EXCEPT !.holder = None] ELSE m

\* the MutexGuard goes out of scope: on the early return of `?` as well as
\* at the end of the handler, whatever the result
unlock(m, result) == [m EXCEPT !.holder = None]

\* a handler is called with its request
Send(c) ==
    /\ pc[c] = "idle"
    /\ \E r \in ConcRequests : req' = [req EXCEPT ![c] = r]
    /\ pc' = [pc EXCEPT ![c] = "waiting"]
    /\ UNCHANGED <<trains, counter, overflow_checks, start, issued, last,
                   marked, mutex, local, order>>

\* state.lock().unwrap(): a poisoned mutex makes unwrap panic
Lock(c) ==
    /\ pc[c] = "waiting"
    /\ can_lock(mutex)
    /\ IF mutex.poisoned
       THEN /\ pc' = [pc EXCEPT ![c] = "panicked"]
            /\ UNCHANGED <<mutex, order>>
       ELSE /\ pc' = [pc EXCEPT ![c] = "locked"]
            /\ mutex' = [mutex EXCEPT !.holder = Some(c)]
            /\ order' = Append(order, c)
    /\ UNCHANGED <<trains, counter, overflow_checks, start, issued, last,
                   marked, req, local>>

\* booking_reference handler: the call under the guard; a panic unwinds
\* through the guard, which poisons the mutex
BookingReferenceBody(c) ==
    /\ pc[c] = "locked"
    /\ req[c].op = "booking_reference"
    /\ LET r == booking_reference(counter, overflow_checks)
       IN  /\ counter' = r.counter
           /\ issued' = Append(issued, [panicked |-> r.panicked,
                                        counter |-> r.counter,
                                        reference |-> r.reference])
           /\ IF r.panicked
              THEN /\ pc' = [pc EXCEPT ![c] = "panicked"]
                   /\ mutex' = [holder |-> None, poisoned |-> TRUE]
                   /\ UNCHANGED local
              ELSE /\ pc' = [pc EXCEPT ![c] = "returning"]
                   /\ local' = [local EXCEPT ![c] =
                        [result |-> Ok(unwrap(r.reference)),
                         response |-> Response(200, unwrap(r.reference)),
                         todo |-> <<>>]]
                   /\ UNCHANGED mutex
    /\ UNCHANGED <<trains, overflow_checks, start, last, marked, req, order>>

\* train handler: lookup and clone under the guard
TrainBody(c) ==
    /\ pc[c] = "locked"
    /\ req[c].op = "train"
    /\ LET r == train(trains, req[c].train_id)
       IN  local' = [local EXCEPT ![c] =
               [result |-> IF r.ok THEN Ok(Unit) ELSE r,
                response |-> IF r.ok THEN Response(200, r.value)
                                     ELSE into_response(r.error),
                todo |-> <<>>]]
    /\ pc' = [pc EXCEPT ![c] = "returning"]
    /\ UNCHANGED <<trains, counter, overflow_checks, start, issued, last,
                   marked, req, mutex, order>>

\* the handler returns Err(e): `?` leaves the function
EarlyReturn(c, e) ==
    /\ local' = [local EXCEPT ![c] =
          [result |-> Err(e), response |-> into_response(e), todo |-> <<>>]]
    /\ pc' = [pc EXCEPT ![c] = "returning"]

\* train_reserve handler: state.trains.train_mut(&train_id)?
ReserveLookup(c) ==
    /\ pc[c] = "locked"
    /\ req[c].op = "train_reserve"
    /\ LET t == train_mut(trains, req[c].train_id)
       IN  IF t.ok
           THEN /\ pc' = [pc EXCEPT ![c] = "existence"]
                /\ UNCHANGED local
           ELSE EarlyReturn(c, t.error)
    /\ UNCHANGED <<trains, counter, overflow_checks, start, issued, last,
                   marked, req, mutex, order>>

\* Train::reserve, first pass
ReserveExistencePass(c) ==
    /\ pc[c] = "existence"
    /\ LET missing == non_existent_seat_ids(trains[req[c].train_id],
                                            req[c].reservation.seats)
       IN  IF missing # <<>>
           THEN EarlyReturn(c, SeatsDoNotExist(missing))
           ELSE /\ pc' = [pc EXCEPT ![c] = "conflict"]
                /\ UNCHANGED local
    /\ UNCHANGED <<trains, counter, overflow_checks, start, issued, last,
                   marked, req, mutex, order>>

\* Train::reserve, second pass
ReserveConflictPass(c) ==
    /\ pc[c] = "conflict"
    /\ LET booked == seats_already_reserved(trains[req[c].train_id],
                                            req[c].reservation.seats)
       IN  IF booked # <<>>
           THEN EarlyReturn(c, SeatsAlreadyReserved(booked))
           ELSE /\ pc' = [pc EXCEPT ![c] = "commit"]
                /\ local' = [local EXCEPT ![c].todo =
                                req[c].reservation.seats]
    /\ UNCHANGED <<trains, counter, overflow_checks, start, issued, last,
                   marked, req, mutex, order>>

\* Train::reserve, third pass: one turn of the loop, or its end
ReserveCommitSeat(c) ==
    /\ pc[c] = "commit"
    /\ IF local[c].todo = <<>>
       THEN /\ pc' = [pc EXCEPT ![c] = "clone"]
            /\ UNCHANGED <<trains, local>>
       ELSE /\ trains' = [trains EXCEPT ![req[c].train_id] =
                            stamp(@, <<Head(local[c].todo)>>,
                                  req[c].reservation.booking_reference)]
            /\ local' = [local EXCEPT ![c].todo = Tail(@)]
            /\ UNCHANGED pc
    /\ UNCHANGED <<counter, overflow_checks, start, issued, last, marked,
                   req, mutex, order>>

\* train_reserve handler: Ok(Json(train.clone()))
ReserveClone(c) ==
    /\ pc[c] = "clone"
    /\ local' = [local EXCEPT ![c] =
          [result |-> Ok(Unit),
           response |-> Response(200, trains[req[c].train_id]),
           todo |-> <<>>]]
    /\ pc' = [pc EXCEPT ![c] = "returning"]
    /\ UNCHANGED <<trains, counter, overflow_checks, start, issued, last,
                   marked, req, mutex, order>>

\* the handler returns: the guard is dropped, the response goes out
Return(c) ==
    /\ pc[c] = "returning"
    /\ mutex' = unlock(mutex, local[c].result)
    /\ pc' = [pc EXCEPT ![c] = "done"]
    /\ UNCHANGED <<trains, counter, overflow_checks, start, issued, last,
                   marked, req, local, order>>

\* the steps of the handler serving client c
Handle(c) ==
    \/ Lock(c)
    \/ BookingReferenceBody(c)
    \/ TrainBody(c)
    \/ ReserveLookup(c)
    \/ ReserveExistencePass(c)
    \/ ReserveConflictPass(c)
    \/ ReserveCommitSeat(c)
    \/ ReserveClone(c)
    \/ Return(c)

NextConc == \E c \in Clients : Send(c) \/ Handle(c)

SpecConc == Init /\ [][NextConc]_vars

\* the runtime lets every handler that can take a step take one
SpecConcFair == SpecConc /\ \A c \in Clients : WF_vars(Handle(c))

--------------------------------------------------------------------------
(* Train::reserve, observed on the request being answered *)

\* the handler reached Train::reserve: the train of the request exists
ReserveCalled ==
    /\ last.op = "train_reserve"
    /\ last.train_id \in DOMAIN last.before

\* the train before and after the call, the seat list and the reference
SeatsBefore == last.before[last.train_id]
SeatsAfter == trains[last.train_id]
Named == last.reservation.seats
NamedRef == last.reservation.booking_reference

NamedSet == {Named[i] : i \in 1..Len(Named)}

IsFreeBefore(s) ==
    s \in DOMAIN SeatsBefore /\ SeatsBefore[s].booking_reference = None
IsBookedBefore(s) ==
    s \in DOMAIN SeatsBefore /\ SeatsBefore[s].booking_reference # None

\* the named ids that are no seat of the train, in request order
MissingNamed == SelectSeq(Named, LAMBDA s : s \notin DOMAIN SeatsBefore)
\* the named ids whose seat carried a reference, in request order
BookedNamed == SelectSeq(Named, LAMBDA s : IsBookedBefore(s))

(* C1: Train.reserve is atomic.  Either it succeeds and every named seat   *)
(* carries the reservation's reference, or it returns an error and the     *)
(* train (every seat's booking_reference, seat_number and coach), like the *)
(* whole collection, is exactly what it was before the call.               *)
C1_ReserveAtomic ==
    ReserveCalled =>
        \/ /\ last.result = Ok(Unit)
           /\ \A s \in NamedSet :
                  SeatsAfter[s].booking_reference = Some(NamedRef)
        \/ /\ ~last.result.ok
           /\ SeatsAfter = SeatsBefore
           /\ trains = last.before

\* a failed call that named a free seat of the train, which is still free
C1_Witness ==
    /\ ReserveCalled
    /\ ~last.result.ok
    /\ \E s \in NamedSet :
          IsFreeBefore(s) /\ SeatsAfter[s].booking_reference = None

(* C2: when every named seat exists and is unreserved, reserve succeeds,   *)
(* every named seat then carries the reservation's reference, and every    *)
(* seat that is not named keeps its previous booking_reference.            *)
C2_ReserveSucceeds ==
    (ReserveCalled /\ \A s \in NamedSet : IsFreeBefore(s)) =>
        /\ last.result = Ok(Unit)
        /\ DOMAIN SeatsAfter = DOMAIN SeatsBefore
        /\ \A s \in NamedSet :
               SeatsAfter[s].booking_reference = Some(NamedRef)
        /\ \A s \in DOMAIN SeatsBefore \ NamedSet :
               SeatsAfter[s] = SeatsBefore[s]

\* a successful call that left a seat booked under another reference alone
C2_Witness ==
    /\ ReserveCalled
    /\ Named # <<>>
    /\ \A s \in NamedSet : IsFreeBefore(s)
    /\ last.result.ok
    /\ \E s \in DOMAIN SeatsBefore \ NamedSet :
          /\ IsBookedBefore(s)
          /\ SeatsAfter[s].booking_reference # Some(NamedRef)

(* C3: when at least one named id is no seat of the train, reserve fails   *)
(* with SeatsDoNotExist listing exactly the nonexistent ids of the request,*)
(* all of them and in request order, and no seat changes.                  *)
C3_SeatsDoNotExist ==
    (ReserveCalled /\ \E s \in NamedSet : s \notin DOMAIN SeatsBefore) =>
        /\ last.result = Err(SeatsDoNotExist(MissingNamed))
        /\ \A i \in 1..Len(last.result.error.seats) :
               last.result.error.seats[i] \notin DOMAIN SeatsBefore
        /\ trains = last.before

\* two different missing ids are reported, after a free seat that was named
C3_Witness ==
    /\ ReserveCalled
    /\ ~last.result.ok
    /\ last.result.error.tag = "SeatsDoNotExist"
    /\ Len(last.result.error.seats) = 2
    /\ last.result.error.seats[1] # last.result.error.seats[2]
    /\ \E s \in NamedSet :
          IsFreeBefore(s) /\ SeatsAfter[s].booking_reference = None

(* C4: when every named seat exists and at least one is booked, reserve    *)
(* fails with SeatsAlreadyReserved listing exactly the booked ids of the   *)
(* request, all of them and in request order, and no seat changes.         *)
C4_SeatsAlreadyReserved ==
    (/\ ReserveCalled
     /\ \A s \in NamedSet : s \in DOMAIN SeatsBefore
     /\ \E s \in NamedSet : IsBookedBefore(s)) =>
        /\ last.result = Err(SeatsAlreadyReserved(BookedNamed))
        /\ \A i \in 1..Len(last.result.error.seats) :
               IsBookedBefore(last.result.error.seats[i])
        /\ trains = last.before

\* a booked seat named first and last is reported twice, and the free seat
\* named between stays free
C4_Witness ==
    /\ ReserveCalled
    /\ ~last.result.ok
    /\ last.result.error.tag = "SeatsAlreadyReserved"
    /\ Len(Named) = 3
    /\ Len(last.result.error.seats) = 2
    /\ IsFreeBefore(Named[2])
    /\ SeatsAfter[Named[2]].booking_reference = None
    /\ SeatsAfter[Named[1]].booking_reference # Some(NamedRef)

(* C5: the existence check precedes the conflict check.  A request naming  *)
(* a nonexistent seat and a booked seat fails with SeatsDoNotExist listing *)
(* only the nonexistent ids; SeatsAlreadyReserved is returned only when    *)
(* every named seat exists.  ["1A", "does_not_exist"] on the train that    *)
(* has only "1A" reports ["does_not_exist"], "1A" free or not.             *)
C5_ExistenceBeforeConflict ==
    ReserveCalled =>
        /\ (/\ \E s \in NamedSet : s \notin DOMAIN SeatsBefore
            /\ \E s \in NamedSet : IsBookedBefore(s)) =>
               /\ ~last.result.ok
               /\ last.result.error.tag = "SeatsDoNotExist"
               /\ \A i \in 1..Len(last.result.error.seats) :
                      last.result.error.seats[i] \notin DOMAIN SeatsBefore
        /\ (~last.result.ok
            /\ last.result.error.tag = "SeatsAlreadyReserved") =>
               \A s \in NamedSet : s \in DOMAIN SeatsBefore
        /\ (/\ DOMAIN SeatsBefore = {SeatId("1A")}
            /\ Named = <<SeatId("1A"), SeatId("does_not_exist")>>) =>
               last.result =
                   Err(SeatsDoNotExist(<<SeatId("does_not_exist")>>))

\* the booked seat comes first in the request and is not reported
C5_Witness ==
    /\ ReserveCalled
    /\ DOMAIN SeatsBefore = {SeatId("1A")}
    /\ Named = <<SeatId("1A"), SeatId("does_not_exist")>>
    /\ IsBookedBefore(SeatId("1A"))
    /\ last.result = Err(SeatsDoNotExist(<<SeatId("does_not_exist")>>))

--------------------------------------------------------------------------
(* Repeating a reservation *)

\* the request being answered repeats the reservation m on the same train
Repeats(m, l) ==
    /\ l.op = "train_reserve"
    /\ l.train_id = m.train_id
    /\ l.reservation = m.reservation

\* every seat of the reservation m carries m's reference
CarriesMarked(m, data) ==
    \A i \in 1..Len(m.reservation.seats) :
        data[m.train_id][m.reservation.seats[i]].booking_reference
            = Some(m.reservation.booking_reference)

(* C6: after a reserve that succeeded for a non-empty seat list, repeating *)
(* the identical call on the same train, with no reset in between and      *)
(* whatever other requests in between, fails with SeatsAlreadyReserved     *)
(* listing every seat of the request in request order, answers 400, and    *)
(* leaves the seats carrying the reference the first call stamped.         *)
C6_RepeatFails ==
    /\ [](is_some(marked) => CarriesMarked(unwrap(marked), trains))
    /\ [][(is_some(marked) /\ Repeats(unwrap(marked), last')) =>
             /\ last'.result =
                  Err(SeatsAlreadyReserved(unwrap(marked).reservation.seats))
             /\ last'.response.status = 400
             /\ trains' = trains
             /\ CarriesMarked(unwrap(marked), trains')]_vars

\* the repeated call was refused, on a train where another reservation
\* under another reference was made as well
C6_Witness ==
    /\ is_some(marked)
    /\ Repeats(unwrap(marked), last)
    /\ last.result =
         Err(SeatsAlreadyReserved(unwrap(marked).reservation.seats))
    /\ last.response.status = 400
    /\ \E s \in DOMAIN SeatsAfter :
          /\ SeatsAfter[s].booking_reference # None
          /\ SeatsAfter[s].booking_reference # Some(NamedRef)

--------------------------------------------------------------------------
(* TrainDataService::train and train_mut *)

(* C10: train(id) and train_mut(id) return the train stored under id when  *)
(* id is a key of the collection, and otherwise fail with                  *)
(* TrainDoesNotExist carrying the requested id; the lookup changes no      *)
(* train, no seat and no counter.  GET /train/{id} for an unknown id       *)
(* answers 404.                                                            *)
C10_TrainLookup ==
    /\ last.op = "train" =>
          /\ trains = last.before
          /\ counter = last.counter_before
          /\ IF last.train_id \in DOMAIN last.before
             THEN /\ last.result = Ok(last.before[last.train_id])
                  /\ last.response = Response(200, last.before[last.train_id])
             ELSE /\ last.result = Err(TrainDoesNotExist(last.train_id))
                  /\ last.response.status = 404
    /\ last.op = "train_reserve" =>
          /\ counter = last.counter_before
          /\ IF last.train_id \in DOMAIN last.before
             THEN \* the train handed out is the one under the id: only it
                  \* is written, and it is the one the response shows
                  /\ \A t \in DOMAIN last.before \ {last.train_id} :
                         trains[t] = last.before[t]
                  /\ (last.result.ok /\ Named # <<>>) =>
                         /\ SeatsAfter # SeatsBefore
                         /\ last.response = Response(200, SeatsAfter)
                  /\ ~last.result.ok =>
                         last.result.error.tag # "TrainDoesNotExist"
             ELSE /\ last.result = Err(TrainDoesNotExist(last.train_id))
                  /\ trains = last.before

\* GET /train/does_not_exist answered 404 while a seat was booked
C10_Witness ==
    /\ last.op = "train"
    /\ last.train_id = TrainId("does_not_exist")
    /\ last.result = Err(TrainDoesNotExist(TrainId("does_not_exist")))
    /\ last.response.status = 404
    /\ \E t \in DOMAIN trains : \E s \in DOMAIN trains[t] :
          trains[t][s].booking_reference # None

--------------------------------------------------------------------------
(* BookingReferenceService, any start value *)

\* the counter before the i-th call
CounterBeforeCall(i) == IF i = 1 THEN start ELSE issued[i - 1].counter

(* C7: for any start value of the 64-bit counter, up to the maximum, every *)
(* call returns a value whose counter is strictly greater than that of     *)
(* every earlier call, the counter never decreases, and no two calls       *)
(* return equal references.                                                *)
C7_StrictlyIncreasing ==
    \A i \in 1..Len(issued) :
        /\ ~U64Less(issued[i].counter, CounterBeforeCall(i))
        /\ ~issued[i].panicked =>
              /\ U64Less(CounterBeforeCall(i), issued[i].counter)
              /\ \A j \in 1..(i - 1) :
                    ~issued[j].panicked =>
                        /\ U64Less(issued[j].counter, issued[i].counter)
                        /\ issued[j].reference # issued[i].reference

\* s + n without a width: the digits, most significant first
RECURSIVE PlusNat(_, _)
PlusNat(digits, n) ==
    IF n = 0 THEN digits
    ELSE IF digits = <<>> THEN PlusNat(<<0>>, n)
    ELSE LET low == digits[Len(digits)] + n
         IN  PlusNat(SubSeq(digits, 1, Len(digits) - 1), low \div 16)
             \o <<low % 16>>

(* C8: the n-th call on an instance created with start value s returns     *)
(* s + n as lowercase hexadecimal without leading zeros and without a      *)
(* prefix: from 123456789 the first call returns "75bcd16", from 0 "1".    *)
C8_NthCallRendersStartPlusN ==
    \A n \in 1..Len(issued) :
        /\ issued[n].reference =
              Some(HexString(Significant(
                  PlusNat([i \in 1..NDigits |-> start[i]], n))))
        /\ (start = ToU64(TestStart) /\ n = 1) =>
              issued[n].reference = Some("75bcd16")
        /\ (start = ToU64(AppStart) /\ n = 1) =>
              issued[n].reference = Some("1")

(* C9: booking_reference() never fails: for every counter value, the       *)
(* largest included, the call returns a reference and does not panic.      *)
C9_NeverFails ==
    \A i \in 1..Len(issued) :
        ~issued[i].panicked /\ is_some(issued[i].reference)

--------------------------------------------------------------------------
(* The shape of the collection *)

(* C11: in every state reachable by booking_reference, train lookup,       *)
(* reserve (successful or failed) and reset, the train ids, the seat ids   *)
(* of each train and each seat's seat_number and coach are those of the    *)
(* loaded fixture: only booking_reference fields ever change.              *)
C11_ShapeFixed ==
    /\ DOMAIN trains = DOMAIN Fixture
    /\ \A t \in DOMAIN Fixture :
          /\ DOMAIN trains[t] = DOMAIN Fixture[t]
          /\ \A s \in DOMAIN Fixture[t] :
                /\ DOMAIN trains[t][s] = DOMAIN Fixture[t][s]
                /\ trains[t][s].seat_number = Fixture[t][s].seat_number
                /\ trains[t][s].coach = Fixture[t][s].coach

\* a reset answered on a train that had a booked seat, after a reference
\* was issued
C11_Witness ==
    /\ last.op = "reset"
    /\ \E s \in DOMAIN SeatsBefore : IsBookedBefore(s)
    /\ issued # <<>>
    /\ C11_ShapeFixed

--------------------------------------------------------------------------
(* Where stamped references come from *)

\* the references the generator returned so far
IssuedReferences == {issued[i].reference : i \in 1..Len(issued)}

(* C12 as claimed: every booking reference stamped on a seat is a value an *)
(* earlier booking_reference() call returned, or was in the fixture.       *)
C12_StampedWereIssued ==
    \A t \in DOMAIN trains : \A s \in DOMAIN trains[t] :
        is_some(trains[t][s].booking_reference) =>
            \/ trains[t][s].booking_reference \in IssuedReferences
            \/ trains[t][s].booking_reference
                   = Fixture[t][s].booking_reference

(* C12 as amended: a step gives a seat a reference only as a successful    *)
(* reserve request on the seat's train that names the seat, and the        *)
(* reference is the one the request carries, issued by the generator or    *)
(* not.                                                                    *)
C12_StampedWereRequested ==
    [][\A t \in DOMAIN trains : \A s \in DOMAIN trains[t] :
          (/\ trains'[t][s].booking_reference
                  # trains[t][s].booking_reference
           /\ is_some(trains'[t][s].booking_reference)) =>
              /\ last'.op = "train_reserve"
              /\ last'.result = Ok(Unit)
              /\ last'.train_id = t
              /\ \E i \in 1..Len(last'.reservation.seats) :
                     last'.reservation.seats[i] = s
              /\ trains'[t][s].booking_reference
                     = Some(last'.reservation.booking_reference)]_vars

\* a seat was stamped with the reference of the request while the
\* generator had issued nothing
C12_Witness ==
    /\ ReserveCalled
    /\ last.result = Ok(Unit)
    /\ issued = <<>>
    /\ \E s \in NamedSet :
          /\ IsFreeBefore(s)
          /\ SeatsAfter[s].booking_reference = Some(NamedRef)

--------------------------------------------------------------------------
(* Train::reset *)

\* the reservations that name only seats of the train
ReservationsWithin(seats) ==
    {r \in Reservations :
        \A i \in 1..Len(r.seats) : r.seats[i] \in DOMAIN seats}

(* C13: reset leaves every seat of the train without booking_reference,    *)
(* never fails, keeps the seat set and each seat's seat_number and coach,  *)
(* changes nothing when repeated, and every seat of the train can be       *)
(* reserved again afterwards.                                              *)
C13_Reset ==
    last.op = "reset" =>
        /\ last.result = Ok(Unit)
        /\ DOMAIN SeatsAfter = DOMAIN SeatsBefore
        /\ \A s \in DOMAIN SeatsBefore :
              /\ SeatsAfter[s].booking_reference = None
              /\ SeatsAfter[s].seat_number = SeatsBefore[s].seat_number
              /\ SeatsAfter[s].coach = SeatsBefore[s].coach
        /\ (\A s \in DOMAIN SeatsBefore : IsFreeBefore(s)) =>
              trains = last.before
        /\ \A r \in ReservationsWithin(SeatsAfter) :
              reserve(SeatsAfter, r).result = Ok(Unit)

\* a train with one booked and one free seat was reset
C13_Witness ==
    /\ last.op = "reset"
    /\ \E s \in DOMAIN SeatsBefore : IsBookedBefore(s)
    /\ \E s \in DOMAIN SeatsBefore : IsFreeBefore(s)
    /\ \A s \in DOMAIN SeatsAfter : SeatsAfter[s].booking_reference = None

--------------------------------------------------------------------------
(* The responses to errors *)

\* the ids, each after the first preceded by ", ", built from the left
RECURSIVE JoinedFromLeft(_, _)
JoinedFromLeft(acc, ids) ==
    IF ids = <<>> THEN acc
    ELSE JoinedFromLeft(acc \o ", " \o Head(ids), Tail(ids))

CommaSpaceJoined(ids) ==
    IF ids = <<>> THEN "" ELSE JoinedFromLeft(Head(ids), Tail(ids))

(* C16: every domain error maps to exactly one response and changes no     *)
(* state: an unknown train answers 404; SeatsDoNotExist answers 400 with   *)
(* "Seats [<ids>] do not exist" and SeatsAlreadyReserved 400 with          *)
(* "Seats [<ids>] are already reserved", <ids> being the error's ids in    *)
(* its order joined by comma and space; a reserve request answers 200      *)
(* only when the reservation was committed.                                *)
C16_ErrorResponses ==
    /\ (last.op \in {"train", "train_reserve"} /\ ~last.result.ok) =>
          /\ trains = last.before
          /\ counter = last.counter_before
          /\ last.result.error.tag \in
                {"TrainDoesNotExist", "SeatsDoNotExist",
                 "SeatsAlreadyReserved"}
          /\ last.result.error.tag = "TrainDoesNotExist" =>
                /\ last.train_id \notin DOMAIN last.before
                /\ last.response.status = 404
          /\ last.result.error.tag = "SeatsDoNotExist" =>
                last.response =
                    Response(400, "Seats ["
                                  \o CommaSpaceJoined(last.result.error.seats)
                                  \o "] do not exist")
          /\ last.result.error.tag = "SeatsAlreadyReserved" =>
                last.response =
                    Response(400, "Seats ["
                                  \o CommaSpaceJoined(last.result.error.seats)
                                  \o "] are already reserved")
          /\ last.result = Err(SeatsDoNotExist(<<SeatId("does_not_exist")>>))
                => last.response.body = "Seats [does_not_exist] do not exist"
          /\ last.result = Err(SeatsAlreadyReserved(<<SeatId("1A")>>))
                => last.response.body = "Seats [1A] are already reserved"
          /\ last.result = Err(SeatsAlreadyReserved(
                                   <<SeatId("2A"), SeatId("1A")>>))
                => last.response.body = "Seats [2A, 1A] are already reserved"
    /\ last.op = "train_reserve" =>
          /\ last.response.status \in {200, 400, 404}
          /\ last.response.status = 200 =>
                /\ last.result = Ok(Unit)
                /\ \A s \in NamedSet :
                       SeatsAfter[s].booking_reference = Some(NamedRef)
          /\ last.train_id \notin DOMAIN last.before =>
                last.response.status = 404 /\ trains = last.before

\* two booked seats were refused with both ids in the text
C16_Witness ==
    /\ last.op = "train_reserve"
    /\ last.result =
         Err(SeatsAlreadyReserved(<<SeatId("2A"), SeatId("1A")>>))
    /\ last.response =
         Response(400, "Seats [2A, 1A] are already reserved")
    /\ trains = last.before

--------------------------------------------------------------------------
(* What each operation leaves alone *)

(* C17: reserve and reset on train T leave every other train unchanged, a  *)
(* seat id that also exists in another train included, and leave the       *)
(* counter unchanged; booking_reference() changes the counter and no seat  *)
(* of any train; GET /train changes nothing.                               *)
C17_Frame ==
    /\ last.op \in {"train_reserve", "reset"} =>
          /\ counter = last.counter_before
          /\ \A t \in DOMAIN last.before \ {last.train_id} :
                 trains[t] = last.before[t]
    /\ last.op = "booking_reference" =>
          /\ trains = last.before
          /\ last.result.ok => counter # last.counter_before
    /\ last.op = "train" =>
          /\ trains = last.before
          /\ counter = last.counter_before

\* seat "1A" of one train was stamped, and the free seat "1A" of another
\* train stayed free
C17_Witness ==
    /\ ReserveCalled
    /\ last.result = Ok(Unit)
    /\ \E s \in NamedSet :
          \E t \in DOMAIN trains \ {last.train_id} :
              /\ s \in DOMAIN trains[t]
              /\ last.before[t][s].booking_reference = None
              /\ trains[t][s].booking_reference = None

--------------------------------------------------------------------------
(* A booked seat stays booked *)

BookedSeats(data) ==
    {<<t, s>> \in UNION {{t} \X DOMAIN data[t] : t \in DOMAIN data} :
        is_some(data[t][s].booking_reference)}

(* C18: a reserved seat is never stamped again.  In every step a seat      *)
(* whose booking_reference is set keeps it, unless the step is a reset of  *)
(* its train, which clears it; no route calls reset, so over the requests  *)
(* of the HTTP surface a booked seat keeps its reference and the number of *)
(* booked seats never decreases.                                           *)
C18_NeverRestamped ==
    [][/\ \A t \in DOMAIN trains : \A s \in DOMAIN trains[t] :
              is_some(trains[t][s].booking_reference) =>
                  IF last'.op = "reset" /\ last'.train_id = t
                  THEN trains'[t][s].booking_reference = None
                  ELSE trains'[t][s].booking_reference
                           = trains[t][s].booking_reference
       /\ "reset" \notin Routes
       /\ last'.op \in Routes =>
              /\ BookedSeats(trains) \subseteq BookedSeats(trains')
              /\ Cardinality(BookedSeats(trains'))
                     >= Cardinality(BookedSeats(trains))]_vars

\* a request under another reference was refused and the seat kept the
\* reference it had
C18_Witness ==
    /\ ReserveCalled
    /\ ~last.result.ok
    /\ last.result.error.tag = "SeatsAlreadyReserved"
    /\ \A s \in NamedSet :
          /\ IsBookedBefore(s)
          /\ SeatsBefore[s].booking_reference # Some(NamedRef)
          /\ SeatsAfter[s].booking_reference
                 = SeatsBefore[s].booking_reference

--------------------------------------------------------------------------
(* Duplicate seat ids and empty seat lists *)

Occurrences(seq, x) == Cardinality({i \in 1..Len(seq) : seq[i] = x})

HasDuplicate(seq) ==
    \E i, j \in 1..Len(seq) : i # j /\ seq[i] = seq[j]

(* C19: duplicate seat ids in one reservation are not rejected.  A         *)
(* reservation naming the same existing free seat more than once succeeds  *)
(* and leaves the seat stamped with its reference; when the duplicated     *)
(* seat is nonexistent or already reserved, the error list holds its id    *)
(* once per occurrence in the request.                                     *)
C19_Duplicates ==
    (ReserveCalled /\ HasDuplicate(Named)) =>
        /\ (\A s \in NamedSet : IsFreeBefore(s)) =>
              /\ last.result = Ok(Unit)
              /\ \A s \in NamedSet :
                     SeatsAfter[s].booking_reference = Some(NamedRef)
        /\ \A s \in NamedSet :
              /\ s \notin DOMAIN SeatsBefore =>
                    /\ last.result.error.tag = "SeatsDoNotExist"
                    /\ Occurrences(last.result.error.seats, s)
                           = Occurrences(Named, s)
              /\ (IsBookedBefore(s)
                  /\ \A x \in NamedSet : x \in DOMAIN SeatsBefore) =>
                    /\ last.result.error.tag = "SeatsAlreadyReserved"
                    /\ Occurrences(last.result.error.seats, s)
                           = Occurrences(Named, s)

\* a free seat named twice was stamped
C19_Witness ==
    /\ ReserveCalled
    /\ Len(Named) >= 2
    /\ Named[1] = Named[2]
    /\ IsFreeBefore(Named[1])
    /\ last.result = Ok(Unit)
    /\ SeatsAfter[Named[1]].booking_reference = Some(NamedRef)

(* C20: a reservation with an empty seat list is accepted.  On every       *)
(* train, in every state, it returns success, stamps nothing and leaves    *)
(* the train unchanged, its reference is recorded nowhere, and the         *)
(* request answers 200.                                                    *)
C20_EmptySeatList ==
    (ReserveCalled /\ Named = <<>>) =>
        /\ last.result = Ok(Unit)
        /\ trains = last.before
        /\ counter = last.counter_before
        /\ last.response = Response(200, SeatsBefore)

\* an empty reservation was answered 200 on a train with a booked and a
\* free seat, none of which carries its reference
C20_Witness ==
    /\ ReserveCalled
    /\ Named = <<>>
    /\ last.response.status = 200
    /\ \E s \in DOMAIN SeatsAfter : SeatsAfter[s].booking_reference = None
    /\ \E s \in DOMAIN SeatsAfter : SeatsAfter[s].booking_reference # None
    /\ \A t \in DOMAIN trains : \A s \in DOMAIN trains[t] :
          trains[t][s].booking_reference # Some(NamedRef)


--------------------------------------------------------------------------
(* Concurrent requests *)

\* what request r, handled alone from app state s, leaves and answers
ServedAlone(s, r) ==
    CASE r.op = "booking_reference" ->
            LET b == booking_reference(s.counter, overflow_checks)
            IN  [trains |-> s.trains, counter |-> b.counter,
                 response |-> IF b.panicked THEN Response(0, "")
                              ELSE Response(200, unwrap(b.reference))]
      [] r.op = "train" ->
            LET t == train(s.trains, r.train_id)
            IN  [trains |-> s.trains, counter |-> s.counter,
                 response |-> IF t.ok THEN Response(200, t.value)
                              ELSE into_response(t.error)]
      [] r.op = "train_reserve" ->
            LET t == train_reserve(s.trains, r.train_id, r.reservation)
            IN  [trains |-> t.trains, counter |-> s.counter,
                 response |-> IF t.result.ok
                              THEN Response(200, t.trains[r.train_id])
                              ELSE into_response(t.result.error)]

\* the requests of the clients cs handled one after another, in that order
RECURSIVE OneAfterAnother(_, _)
OneAfterAnother(s, cs) ==
    IF cs = <<>> THEN s
    ELSE LET a == ServedAlone(s, req[Head(cs)])
         IN  OneAfterAnother(
                 [trains |-> a.trains, counter |-> a.counter,
                  out |-> [s.out EXCEPT ![Head(cs)] = a.response]],
                 Tail(cs))

IsDone(c) == pc[c] = "done"

\* the completed requests, in the order their handlers took the mutex
Completed == SelectSeq(order, IsDone)

\* the app state after the completed requests, had each run alone
Serial ==
    OneAfterAnother([trains |-> Fixture, counter |-> start,
                     out |-> [c \in Clients |-> Response(0, "")]],
                    Completed)

SeatSet(ids) == {ids[i] : i \in 1..Len(ids)}

\* client c sent a reserve request for train t that names only seats of t
ReservesOn(c, t) ==
    /\ req[c].op = "train_reserve"
    /\ req[c].train_id = t
    /\ SeatSet(req[c].reservation.seats) \subseteq DOMAIN Fixture[t]

\* the seats of a train that carry the reference of a reservation
StampedBy(seats, reservation) ==
    {x \in DOMAIN seats :
        seats[x].booking_reference = Some(reservation.booking_reference)}

\* a train shows a reservation in part: some of its seats carry the
\* reference and some do not
InPart(seats, reservation) ==
    LET named == SeatSet(reservation.seats)
    IN  /\ named \cap StampedBy(seats, reservation) # {}
        /\ named \ StampedBy(seats, reservation) # {}

(* C14: with requests handled concurrently, at most one handler is inside  *)
(* the locked section; the responses of the completed requests, and the    *)
(* trains and the counter whenever no handler owns the guard, are those of *)
(* running the completed requests one after another in the order they took *)
(* the mutex; of two reserve requests on one train that share a seat, with *)
(* no third reserve on that train, exactly one succeeds and the other gets *)
(* SeatsAlreadyReserved; and no GET /train response shows a reservation    *)
(* stamped in part.                                                        *)
C14_Serialized ==
    /\ Cardinality({c \in Clients : pc[c] \in InSection}) <= 1
    /\ \A c \in Clients : IsDone(c) => local[c].response = Serial.out[c]
    /\ mutex.holder = None =>
          /\ trains = Serial.trains
          /\ counter = Serial.counter
    /\ \A c, d \in Clients : \A t \in DOMAIN Fixture :
          ( /\ c # d
            /\ IsDone(c) /\ IsDone(d)
            /\ ReservesOn(c, t) /\ ReservesOn(d, t)
            /\ SeatSet(req[c].reservation.seats)
                 \cap SeatSet(req[d].reservation.seats) # {}
            /\ \A e \in Clients \ {c, d} :
                  ~(e \in SeatSet(order) /\ req[e].op = "train_reserve"
                    /\ req[e].train_id = t) )
          => \/ /\ local[c].result.ok
                /\ ~local[d].result.ok
                /\ local[d].result.error.tag = "SeatsAlreadyReserved"
                /\ local[d].response.status = 400
             \/ /\ local[d].result.ok
                /\ ~local[c].result.ok
                /\ local[c].result.error.tag = "SeatsAlreadyReserved"
                /\ local[c].response.status = 400
    /\ \A c \in Clients :
          ( /\ req[c].op = "train"
            /\ pc[c] \in {"returning", "done"}
            /\ local[c].response.status = 200 )
          => \A r \in ConcRequests :
                (r.op = "train_reserve" /\ r.train_id = req[c].train_id)
                => ~InPart(local[c].response.body, r.reservation)

\* a reservation of two seats has stamped its first seat only, while a
\* GET /train for the same train waits for the mutex
C14_Witness ==
    \E c, d \in Clients :
        /\ pc[c] = "commit"
        /\ Len(req[c].reservation.seats) = 2
        /\ Len(local[c].todo) = 1
        /\ InPart(trains[req[c].train_id], req[c].reservation)
        /\ pc[d] = "waiting"
        /\ req[d].op = "train"
        /\ req[d].train_id = req[c].train_id

\* the three early returns of the handlers
EarlyReturns == {"TrainDoesNotExist", "SeatsDoNotExist", "SeatsAlreadyReserved"}

\* how often client c took the mutex
TimesLocked(c) == Cardinality({i \in 1..Len(order) : order[i] = c})

\* the guard is owned by the handler that is inside the section, by no
\* other, and by none that has returned; no handler panics
LockKept ==
    /\ ~mutex.poisoned
    /\ \A c \in Clients :
          /\ pc[c] # "panicked"
          /\ (mutex.holder = Some(c)) <=> (pc[c] \in InSection)
          /\ TimesLocked(c) = (IF pc[c] \in InSection \cup {"done"}
                               THEN 1 ELSE 0)
          /\ IsDone(c) => local[c].response.status \in {200, 400, 404}
          /\ (IsDone(c) /\ local[c].response.status # 200) =>
                /\ ~local[c].result.ok
                /\ local[c].result.error.tag \in EarlyReturns

\* no request is pending: each client has sent none, or has its response
NonePending == \A c \in Clients : pc[c] \in {"idle", "done"}

(* C15: no deadlock and no lost lock.  Every handler takes the one mutex   *)
(* once, owns it exactly while it is inside the section and has released   *)
(* it when it has returned, by an early return as well; and, with every    *)
(* handler scheduled fairly, every request that waits for the mutex gets   *)
(* it and is answered: a request stays pending until its response is out,  *)
(* so this is to say that from some point on no request is pending.        *)
C15_NoLostLock ==
    /\ []LockKept
    /\ <>[]NonePending

\* a handler left by an early return, and the request that took the mutex
\* after it has been answered
C15_Witness ==
    \E c, d \in Clients :
        /\ c # d
        /\ Len(order) >= 2
        /\ order[Len(order) - 1] = c
        /\ order[Len(order)] = d
        /\ IsDone(c) /\ IsDone(d)
        /\ ~local[c].result.ok
        /\ local[c].result.error.tag \in EarlyReturns

==========================================================================
